---- MODULE Spec2Model ----
(***************************************************************************)
(* Model of the batched photon propagation engine, src/model.py (class     *)
(* Model): cascade initialisation, direction sampling, scattering and the  *)
(* lock-step propagation loop.                                             *)
(*                                                                         *)
(* Numbers.  Floating point values are modelled by exact integers.  The    *)
(* collaborators deliver distances that are even integers and hit          *)
(* fractions that are multiples of 1/2, so that every product              *)
(* d*rel_d_til_hit the body computes is an integer.  Angles are whole      *)
(* quarter turns, on which sine and cosine are integers; the scattering    *)
(* draw is taken where the half-angle square roots are integers.           *)
(*                                                                         *)
(* Tensors of shape (n) or (n, 3) are sequences of length n of integers or *)
(* of triples.  A row whose three components are NaN is NaNVector.         *)
(***************************************************************************)
EXTENDS Integers, Sequences, FiniteSets

VARIABLES
    settings,        \* settings module: BATCH_SIZE, CASCADES_PER_STEP, CUTOFF_RADIUS
    r_cascades,      \* self.r_cascades, the placeholder's value
    pc,              \* position in Model.__init__ / the while loop
    r0,              \* self._r0
    v0,              \* self._v0
    d_abs0,          \* the value tf_sample_absorption(self._r0) returned
    d_abs, r, v, t, t_layer_0, t_layer_1,   \* the loop variables
    d_scat,          \* body's local: last scatter distances sampled
    rel_d_til_hit,   \* body's local: last hit fractions returned
    iter,            \* number of executions of body so far
    results          \* what tf.while_loop returned (<<>> before it returns)

vars == <<settings, r_cascades, pc, r0, v0, d_abs0, d_abs, r, v, t,
          t_layer_0, t_layer_1, d_scat, rel_d_til_hit, iter, results>>

----------------------------------------------------------------------------
(* Bounds of the model *)

MaxTileBatch == 4      \* largest BATCH_SIZE of the cascade initialisation runs
MaxCascades == 2       \* largest CASCADES_PER_STEP
MaxAbsorb == 2         \* absorption distances are 2, 4, .., 2*MaxAbsorb
MaxIter == 3           \* iterations explored when the collaborators break their contracts

----------------------------------------------------------------------------
(* Vectors *)

\* the vector every component of which is NaN (0/0); any sum or product with
\* it is NaN again and every comparison with it is false
NaNVector == <<>>

\* sum and scaling of vectors that hold numbers
VecAdd(a, b) == <<a[1] + b[1], a[2] + b[2], a[3] + b[3]>>
VecScale(s, a) == <<s * a[1], s * a[2], s * a[3]>>
Dot(a, b) == a[1] * b[1] + a[2] * b[2] + a[3] * b[3]
Cross(a, b) == <<a[2] * b[3] - a[3] * b[2],
                 a[3] * b[1] - a[1] * b[3],
                 a[1] * b[2] - a[2] * b[1]>>

\* the square root, on the perfect squares the model meets
Sqrt(x) == CHOOSE s \in 0..x : s * s = x
Norm(a) == Sqrt(Dot(a, a))

\* sine and cosine of q quarter turns
Sin(q) == <<0, 1, 0, -1>>[(q % 4) + 1]
Cos(q) == <<1, 0, -1, 0>>[(q % 4) + 1]

\* Hamilton product of quaternions <<w, x, y, z>>
QMul(a, b) ==
    <<a[1]*b[1] - a[2]*b[2] - a[3]*b[3] - a[4]*b[4],
      a[1]*b[2] + a[2]*b[1] + a[3]*b[4] - a[4]*b[3],
      a[1]*b[3] - a[2]*b[4] + a[3]*b[1] + a[4]*b[2],
      a[1]*b[4] + a[2]*b[3] - a[3]*b[2] + a[4]*b[1]>>
QConj(a) == <<a[1], -a[2], -a[3], -a[4]>>

\* tfq.rotate_vector_by_quaternion(q, v) = q * (0, v) * q^-1, q a unit quaternion
rotate_vector_by_quaternion(q, w) ==
    LET p == QMul(QMul(q, <<0, w[1], w[2], w[3]>>), QConj(q))
    IN  <<p[2], p[3], p[4]>>

----------------------------------------------------------------------------
(* The uniform pdf.  A sample u of self._uni_pdf, a hit fraction and the    *)
(* cutoff fraction are rationals, held as <<numerator, denominator>>.      *)

\* samples used as thetas = u*pi: 0 and a quarter turn
ThetaSamples == {<<0, 1>>, <<1, 2>>}
\* samples used as phis = u*2*pi: 0
PhiSamples == {<<0, 1>>}
\* samples used in cosTs = 2*u**(1/19) - 1: u = 0 and u = 1 (a sample so close
\* to 1 that its 19th root rounds to 1)
CosSamples == {<<0, 1>>, <<1, 1>>}

\* u*np.pi and u*2*np.pi, in quarter turns
Thetas(u) == (u[1] * 2) \div u[2]
Phis(u) == (u[1] * 4) \div u[2]

\* [sinTs*cos(phis), sinTs*sin(phis), cos(thetas)]
UnitVector(ut, up) ==
    <<Sin(Thetas(ut)) * Cos(Phis(up)), Sin(Thetas(ut)) * Sin(Phis(up)), Cos(Thetas(ut))>>

\* the unit vectors along the axes
Directions == {<<1, 0, 0>>, <<-1, 0, 0>>, <<0, 1, 0>>, <<0, -1, 0>>, <<0, 0, 1>>, <<0, 0, -1>>}

\* the directions tf_init_cascades can draw for one photon
InitialDirections == {UnitVector(ut, up) : ut \in ThetaSamples, up \in PhiSamples}

----------------------------------------------------------------------------
(* Scattering *)

\* the draws of one photon in tf_scatter: <<u of cosTs, u of thetas, u of phis>>
ScatterDraws == CosSamples \X ThetaSamples \X PhiSamples

\* tf.cross(random unit vector, v), before the normalisation
NormalCross(w, ut, up) == Cross(UnitVector(ut, up), w)

\* tf_sample_normal_vectors, one row: n/tf.norm(n), which is 0/0 in every
\* component when the sampled vector is parallel to w
tf_sample_normal_vectors(w, ut, up) ==
    LET n == NormalCross(w, ut, up)
    IN  IF Norm(n) = 0 THEN NaNVector
        ELSE <<n[1] \div Norm(n), n[2] \div Norm(n), n[3] \div Norm(n)>>

\* u**(1/19) on the samples 0 and 1: the x with x**19 = u
RECURSIVE Pow(_, _)
Pow(x, n) == IF n = 0 THEN 1 ELSE x * Pow(x, n - 1)
Root19(u) == CHOOSE x \in 0..1 : Pow(x, 19) * u[2] = u[1]

\* tf_scatter, one row, under the draws dr; a NaN in the direction or in the
\* axis makes every component of the quaternion product NaN
tf_scatter(w, dr) ==
    LET cosTs == 2 * Root19(dr[1]) - 1
        cosT2s == Sqrt((cosTs + 1) \div 2)
        sinT2s == Sqrt((1 - cosTs) \div 2)
        n == IF w = NaNVector THEN NaNVector
             ELSE tf_sample_normal_vectors(w, dr[2], dr[3])
        ns == VecScale(sinT2s, n)
    IN  IF n = NaNVector THEN NaNVector
        ELSE rotate_vector_by_quaternion(<<cosT2s, ns[1], ns[2], ns[3]>>, w)

\* what tf_scatter can return for one photon of direction w: every draw is
\* taken, the ones whose sampled vector is parallel to w too (lines 103-104)
ScatterOutcomes(w) == {tf_scatter(w, dr) : dr \in ScatterDraws}

----------------------------------------------------------------------------
(* Collaborators and configuration *)

\* self._detector._l_x, _l_y, _l_z: the detector's extents
l_x == 50
l_y == 100
l_z == 100

\* the values of settings.CUTOFF_RADIUS: off, and the fraction 2/75
CutoffChoices == {<<0, 1>>, <<2, 75>>}

\* where a cascade can be: the detector's centre and a point two below it
CascadePositions == {<<25, 50, 50>>, <<25, 50, 48>>}

\* what the medium returns within its contract (positive distances)
AbsorptionDistances == {2 * k : k \in 1..MaxAbsorb}
ScatterDistances == {2, 4}
\* what the detector returns within its contract: 0, 1/2, 1
HitFractions == {<<0, 1>>, <<1, 2>>, <<1, 1>>}

\* what collaborators that break their contracts can return as well
AnyAbsorptionDistances == AbsorptionDistances \cup {-2, 0}
AnyScatterDistances == ScatterDistances \cup {-2, 0}
AnyHitFractions == HitFractions \cup {<<-1, 2>>, <<3, 2>>}

\* the values of settings.BATCH_SIZE in the propagation runs: the photons of a
\* batch are advanced row by row, and two rows show what one does to another
BatchSizes == {2}

\* settings, with BATCH_SIZE in B and CASCADES_PER_STEP dividing it or not
Settings(B, divisible) ==
    {s \in [BATCH_SIZE : B, CASCADES_PER_STEP : 1..MaxCascades,
            CUTOFF_RADIUS : CutoffChoices] :
        divisible => s.BATCH_SIZE % s.CASCADES_PER_STEP = 0}

----------------------------------------------------------------------------
(* Rationals <<numerator, denominator>>, denominator > 0 *)

\* a < 1
LessOne(a) == a[1] < a[2]
\* d*a, for d*a an integer
Times(d, a) == (d * a[1]) \div a[2]
\* 0 <= a <= 1
InUnit(a) == 0 <= a[1] /\ a[1] <= a[2]

----------------------------------------------------------------------------
(* tf_init_cascades *)

\* tf.tile(x, [k, 1]): the rows of x, k times over
tf_tile(x, k) == [i \in 1..(Len(x) * k) |-> x[((i - 1) % Len(x)) + 1]]

\* Multiples without the division by the number of cascades
Multiples_batch(s) == s.BATCH_SIZE

\* int(settings.BATCH_SIZE/settings.CASCADES_PER_STEP)
Multiples(s) == s.BATCH_SIZE \div s.CASCADES_PER_STEP

tf_init_cascades ==
    /\ pc = "init"
    /\ r0' = tf_tile(r_cascades, Multiples(settings))
    /\ v0' \in [1..settings.BATCH_SIZE -> InitialDirections]
    /\ pc' = "propagate"
    /\ UNCHANGED <<settings, r_cascades, d_abs0, d_abs, r, v, t, t_layer_0,
                   t_layer_1, d_scat, rel_d_til_hit, iter, results>>

----------------------------------------------------------------------------
(* tf_propagate: one row of body *)

\* line 118: d_abs = tf.where(d_abs > 0., d_abs, 0)
Clamp(da) == IF da > 0 THEN da ELSE 0

\* StepDistance taking the larger of the two distances
StepDistance_larger(ds, da) == IF ds < da THEN da ELSE ds

\* StepDistance without the bound by the remaining absorption distance
StepDistance_scatter(ds, da) == ds

\* line 122: d = tf.where(d_scat < d_abs, d_scat, d_abs)
StepDistance(ds, da) == IF ds < da THEN ds ELSE da

\* AfterHit with the branches of tf.where exchanged
AfterHit_swapped(rel, d, da) == IF LessOne(rel) THEN da - d ELSE 0

\* AfterHit without the decrement
AfterHit_keep(rel, d, da) == IF LessOne(rel) THEN 0 ELSE da

\* AfterHit with the sign of the decrement wrong
AfterHit_plus(rel, d, da) == IF LessOne(rel) THEN 0 ELSE da + d

\* line 126: d_abs = tf.where(rel_d_til_hit < 1., 0, d_abs - d)
AfterHit(rel, d, da) == IF LessOne(rel) THEN 0 ELSE da - d

\* line 132: t_step = d*rel_d_til_hit
TStep(d, rel) == Times(d, rel)

\* Advance over the whole step, the hit fraction left out
Advance_full(pos, d, rel, w) ==
    IF pos = NaNVector \/ w = NaNVector THEN NaNVector
    ELSE VecAdd(pos, VecScale(d, w))

\* line 129: r += d*rel_d_til_hit*v, NaN when r or v is
Advance(pos, d, rel, w) ==
    IF pos = NaNVector \/ w = NaNVector THEN NaNVector
    ELSE VecAdd(pos, VecScale(Times(d, rel), w))

\* Layer0 assigning where the code accumulates
Layer0_assign(tl, pos, ts) == IF pos # NaNVector /\ pos[3] < 50 THEN ts ELSE 0

\* lines 136-137: t_layer_0 += tf.where(r[:, 2] < 50, t_step, 0)
Layer0(tl, pos, ts) == tl + (IF pos # NaNVector /\ pos[3] < 50 THEN ts ELSE 0)

\* lines 138-139: t_layer_1 += tf.where(r[:, 2] >= 50, t_step, 0)
Layer1(tl, pos, ts) == tl + (IF pos # NaNVector /\ pos[3] >= 50 THEN ts ELSE 0)

\* lines 143-149: norm(r - [l_x/2, l_y/2, l_z/2]) < CUTOFF_RADIUS*norm([l_x, l_y, l_z])/2,
\* for a fraction cut >= 0, with both sides doubled and squared
InsideCutoff(pos, cut) ==
    LET rel == VecAdd(VecScale(2, pos), <<-l_x, -l_y, -l_z>>)
        ext == <<l_x, l_y, l_z>>
    IN  /\ pos # NaNVector
        /\ cut[2] * cut[2] * Dot(rel, rel) < cut[1] * cut[1] * Dot(ext, ext)

\* line 142: if settings.CUTOFF_RADIUS
CutoffConfigured(s) == s.CUTOFF_RADIUS[1] # 0

\* lines 142-150: d_abs = tf.where(inside, d_abs, 0) when a cutoff is configured
AfterCutoff(s, pos, da) ==
    IF CutoffConfigured(s)
    THEN (IF InsideCutoff(pos, s.CUTOFF_RADIUS) THEN da ELSE 0)
    ELSE da

\* ScatterMask scattering every photon
ScatterMask_all(da, vs, w) == vs

\* line 153: v = tf.where(d_abs > 0., self.tf_scatter(v), v)
ScatterMask(da, vs, w) == IF da > 0 THEN vs ELSE w

\* tf.reduce_max of a non-empty tensor
tf_reduce_max(x) == CHOOSE m \in {x[i] : i \in DOMAIN x} : \A i \in DOMAIN x : x[i] <= m

\* cond with the smallest remaining distance in place of the largest
cond_min(da) == \A i \in DOMAIN da : 0 < da[i]

\* lines 158-159: the loop's condition
cond(da) == 0 < tf_reduce_max(da)

\* ScatterOutcomes, tabulated
ScatterTable == [w \in Directions \cup {NaNVector} |-> ScatterOutcomes(w)]

\* the batches that have in each row one of the outcomes table gives for it
Rowwise(table, dirs) ==
    {f \in [DOMAIN dirs -> UNION {table[dirs[i]] : i \in DOMAIN dirs}] :
        \A i \in DOMAIN dirs : f[i] \in table[dirs[i]]}

\* what self.tf_scatter(v) can return for the batch
tf_scatter_batch(dirs) == Rowwise(ScatterTable, dirs)

\* tf.zeros([n])
tf_zeros(n) == [i \in 1..n |-> 0]

----------------------------------------------------------------------------
(* tf_propagate: the loop *)

\* lines 162-170: the loop variables' initial values, the medium returning
\* absorption distances from AD
LoopVars(AD) ==
    /\ pc = "propagate"
    /\ d_abs' \in [1..Len(r0) -> AD]
    /\ d_abs0' = d_abs'
    /\ r' = r0
    /\ v' = v0
    /\ t' = tf_zeros(Len(r0))
    /\ t_layer_0' = tf_zeros(Len(r0))
    /\ t_layer_1' = tf_zeros(Len(r0))
    /\ pc' = "loop"
    /\ UNCHANGED <<settings, r_cascades, r0, v0, d_scat, rel_d_til_hit, iter, results>>

\* the position the layer test of lines 136-139 reads: r after line 129
LayerPosition_before(before, after) == before
LayerPosition(before, after) == after

\* the absorption length the mask of line 153 reads: d_abs after line 150
MaskValue_before(before, afterhit, aftercut) == before
MaskValue(before, afterhit, aftercut) == aftercut

\* lines 113-155: one execution of body, the medium returning scatter distances
\* from SD and the detector hit fractions from HF
Iteration(SD, HF) ==
    /\ pc = "loop"
    /\ cond(d_abs)
    /\ LET scattered == tf_scatter_batch(v)
       IN  \E ds \in [DOMAIN d_abs -> SD], rel \in [DOMAIN d_abs -> HF] :
        LET clamped == [i \in DOMAIN d_abs |-> Clamp(d_abs[i])]
            d == [i \in DOMAIN d_abs |-> StepDistance(ds[i], clamped[i])]
            hit == [i \in DOMAIN d_abs |-> AfterHit(rel[i], d[i], clamped[i])]
            moved == [i \in DOMAIN d_abs |-> Advance(r[i], d[i], rel[i], v[i])]
            t_step == [i \in DOMAIN d_abs |-> TStep(d[i], rel[i])]
            cut == [i \in DOMAIN d_abs |-> AfterCutoff(settings, moved[i], hit[i])]
            at == [i \in DOMAIN d_abs |-> LayerPosition(r[i], moved[i])]
            mask == [i \in DOMAIN d_abs |-> MaskValue(d_abs[i], hit[i], cut[i])]
        IN  /\ d_scat' = ds
            /\ rel_d_til_hit' = rel
            /\ d_abs' = cut
            /\ r' = moved
            /\ t' = [i \in DOMAIN d_abs |-> t[i] + t_step[i]]
            /\ t_layer_0' = [i \in DOMAIN d_abs |-> Layer0(t_layer_0[i], at[i], t_step[i])]
            /\ t_layer_1' = [i \in DOMAIN d_abs |-> Layer1(t_layer_1[i], at[i], t_step[i])]
            /\ v' \in {[i \in DOMAIN d_abs |-> ScatterMask(mask[i], vs[i], v[i])] :
                          vs \in scattered}
    /\ iter' = iter + 1
    /\ UNCHANGED <<settings, r_cascades, pc, r0, v0, d_abs0, results>>

\* the medium and the detector keep their contracts
tf_propagate == LoopVars(AbsorptionDistances)
body == Iteration(ScatterDistances, HitFractions)

\* the medium and the detector may break their contracts
tf_propagate_unchecked == LoopVars(AnyAbsorptionDistances)
body_unchecked == iter < MaxIter /\ Iteration(AnyScatterDistances, AnyHitFractions)

\* lines 157-176: the loop ends and the results are stored
while_loop_exit ==
    /\ pc = "loop"
    /\ ~cond(d_abs)
    /\ results' = <<d_abs, r, v, t, t_layer_0, t_layer_1>>
    /\ pc' = "done"
    /\ UNCHANGED <<settings, r_cascades, r0, v0, d_abs0, d_abs, r, v, t, t_layer_0,
                   t_layer_1, d_scat, rel_d_til_hit, iter>>

\* self.final_positions, self.arrival_times, self.t_layer_0, self.t_layer_1
final_positions == results[2]
arrival_times == results[4]
self_t_layer_0 == results[5]
self_t_layer_1 == results[6]

----------------------------------------------------------------------------
(* Specifications *)

\* the state when Model.__init__ calls tf_init_cascades, under the settings in S
InitWith(S) ==
    /\ settings \in S
    /\ r_cascades \in [1..settings.CASCADES_PER_STEP -> CascadePositions]
    /\ pc = "init"
    /\ r0 = <<>> /\ v0 = <<>> /\ d_abs0 = <<>>
    /\ d_abs = <<>> /\ r = <<>> /\ v = <<>> /\ t = <<>>
    /\ t_layer_0 = <<>> /\ t_layer_1 = <<>>
    /\ d_scat = <<>> /\ rel_d_til_hit = <<>>
    /\ iter = 0
    /\ results = <<>>

\* propagation with collaborators that keep their contracts
Init == InitWith(Settings(BatchSizes, TRUE))
Next == tf_init_cascades \/ tf_propagate \/ body \/ while_loop_exit
Spec == Init /\ [][Next]_vars

\* the same for the photons of a single cascade at the detector's centre, every
\* enabled step being taken eventually: the graph runs to its end
InitLive ==
    /\ InitWith({s \in Settings(BatchSizes, TRUE) : s.CASCADES_PER_STEP = 1})
    /\ r_cascades[1] = <<l_x \div 2, l_y \div 2, l_z \div 2>>
LiveSpec == InitLive /\ [][Next]_vars /\ WF_vars(Next)

\* propagation of a single photon with collaborators that may break their
\* contracts; body runs at most MaxIter times
InitUnchecked == InitWith(Settings({1}, TRUE))
NextUnchecked == tf_init_cascades \/ tf_propagate_unchecked \/ body_unchecked \/ while_loop_exit
SpecUnchecked == InitUnchecked /\ [][NextUnchecked]_vars

\* propagation of the two photons of a single cascade with a medium that may
\* break its contract: absorption distances and scatter distances may be
\* negative, scatter distances may be 0; body runs at most MaxIter times
BatchAbsorptionDistances == {-2, 2}
BatchScatterDistances == {-2, 0, 2}
BatchHitFractions == {<<1, 2>>, <<1, 1>>}
tf_propagate_batch == LoopVars(BatchAbsorptionDistances)
body_unchecked_batch ==
    iter < MaxIter /\ Iteration(BatchScatterDistances, BatchHitFractions)
NextUncheckedBatch ==
    tf_init_cascades \/ tf_propagate_batch \/ body_unchecked_batch \/ while_loop_exit
SpecUncheckedBatch == InitLive /\ [][NextUncheckedBatch]_vars

\* cascade initialisation alone, BATCH_SIZE a multiple of CASCADES_PER_STEP or not
InitCascades == InitWith(Settings(1..MaxTileBatch, FALSE))
NextCascades == tf_init_cascades
SpecCascades == InitCascades /\ [][NextCascades]_vars

----------------------------------------------------------------------------
(* Properties *)

\* the loop variables hold a batch
InLoop == pc \in {"loop", "done"}
Photons == DOMAIN d_abs

\* C1. Freezing is terminal: a photon whose d_abs is 0 when an iteration starts
\* has d_abs 0 after it, and its position, direction, elapsed time and layer
\* times are unchanged, whatever happens to the other photons.
FreezingTerminal ==
    [][pc = "loop" =>
        \A i \in Photons :
            d_abs[i] = 0 =>
                /\ d_abs'[i] = 0
                /\ r'[i] = r[i]
                /\ v'[i] = v[i]
                /\ t'[i] = t[i]
                /\ t_layer_0'[i] = t_layer_0[i]
                /\ t_layer_1'[i] = t_layer_1[i]]_vars

\* a second iteration has run over a photon that the first one froze after a
\* step of 2, the collaborators returning a distance and a hit for it again
FreezingTerminalWitness ==
    /\ pc = "loop" /\ iter = 2
    /\ \E i \in Photons :
        /\ d_abs0[i] = 2 /\ d_abs[i] = 0 /\ t[i] = 2
        /\ d_scat[i] = 4 /\ rel_d_til_hit[i] = <<1, 2>>
        /\ r[i] = VecAdd(r0[i], VecScale(2, v0[i]))

\* C2. d_abs of a photon never increases from one iteration to the next, with
\* the cutoff radius configured or not.
AbsorptionNonIncreasing ==
    [][pc = "loop" => \A i \in Photons : d_abs'[i] <= d_abs[i]]_vars

\* under a configured cutoff a photon is still active after an iteration that
\* shortened its d_abs
AbsorptionNonIncreasingWitness ==
    /\ pc = "loop" /\ iter = 1
    /\ CutoffConfigured(settings)
    /\ \E i \in Photons : 0 < d_abs[i] /\ d_abs[i] < d_abs0[i]

\* C3. The loop stops, and it stops in a state where every photon is frozen.
Termination ==
    <>[](pc = "done" /\ \A i \in Photons : d_abs[i] = 0)

\* the loop has stopped after more than one iteration
TerminationWitness ==
    /\ pc = "done" /\ iter >= 2
    /\ \A i \in Photons : d_abs[i] = 0 /\ results[1][i] = 0

\* C4. At the start of the loop and after every iteration the two layer times
\* of a photon add up to its elapsed time.
LayerTimesPartition ==
    InLoop => \A i \in Photons : t_layer_0[i] + t_layer_1[i] = t[i]

\* What lines 136-139 do instead: the layer times of a photon add up to its
\* elapsed time as long as its position is a number; a step taken with a NaN
\* direction is credited to neither layer.
LayerTimesPartitionNumbers ==
    InLoop => \A i \in Photons :
        /\ r[i] # NaNVector => t_layer_0[i] + t_layer_1[i] = t[i]
        /\ t_layer_0[i] + t_layer_1[i] <= t[i]

\* a photon has been credited time in both layers, one step ending at z = 50,
\* while another one has moved with a NaN direction and lacks that step's time
LayerTimesPartitionNumbersWitness ==
    /\ pc = "loop" /\ iter = 2
    /\ \E i, j \in Photons :
        /\ t_layer_0[i] > 0 /\ t_layer_1[i] > 0
        /\ r0[i][3] = 48 /\ v0[i] = <<0, 0, 1>>
        /\ r[j] = NaNVector
        /\ t_layer_0[j] + t_layer_1[j] < t[j]

\* C5. elapsed_time, layer0_time and layer1_time of a photon never decrease
\* from one iteration to the next.
TimesNonDecreasing ==
    [][pc = "loop" =>
        \A i \in Photons :
            /\ t[i] <= t'[i]
            /\ t_layer_0[i] <= t_layer_0'[i]
            /\ t_layer_1[i] <= t_layer_1'[i]]_vars

\* a photon has been credited time in layer 1 and then, by a later iteration
\* that took it back below z = 50, in layer 0
TimesNonDecreasingWitness ==
    /\ pc = "loop" /\ iter = 2
    /\ \E i \in Photons :
        /\ r0[i][3] = 48 /\ r[i] # NaNVector /\ r[i][3] = 48
        /\ t_layer_0[i] = 2 /\ t_layer_1[i] = 2 /\ t[i] = 4

\* the smaller of two distances
Min(a, b) == IF a <= b THEN a ELSE b

\* C6. Without a cutoff radius, a photon whose initial absorption distance is
\* at most the scatter distance of the first iteration and that the detector
\* reports no hit for (hit fraction 1) is frozen after that iteration, having
\* travelled its absorption distance along its initial direction, which is not
\* scattered; when this is so for every photon the loop ends after that one
\* iteration and these are the outputs.
AbsorbedBeforeScatter ==
    (InLoop /\ iter = 1 /\ ~CutoffConfigured(settings)) =>
        LET absorbed(i) == d_abs0[i] <= d_scat[i] /\ rel_d_til_hit[i] = <<1, 1>>
        IN  /\ \A i \in Photons :
                absorbed(i) =>
                    /\ d_abs[i] = 0
                    /\ t[i] = d_abs0[i]
                    /\ r[i] = VecAdd(r0[i], VecScale(d_abs0[i], v0[i]))
                    /\ v[i] = v0[i]
            /\ (\A i \in Photons : absorbed(i)) => ~cond(d_abs)
            /\ (pc = "done" /\ \A i \in Photons : absorbed(i)) =>
                \A i \in Photons :
                    /\ arrival_times[i] = d_abs0[i]
                    /\ final_positions[i] = VecAdd(r0[i], VecScale(d_abs0[i], v0[i]))

\* the scenario, scaled: scatter distance 4, absorption distance 2, no hit, no
\* cutoff; the loop has ended after one iteration
AbsorbedBeforeScatterWitness ==
    /\ pc = "done" /\ iter = 1 /\ ~CutoffConfigured(settings)
    /\ \A i \in Photons :
        /\ d_scat[i] = 4 /\ d_abs0[i] = 2 /\ rel_d_til_hit[i] = <<1, 1>>
        /\ arrival_times[i] = 2

\* C7. A photon for which the detector returns a hit fraction f < 1 in the
\* first iteration advances f*min(d_scat, d_abs) along its initial direction,
\* its elapsed time is f*min(d_scat, d_abs), it is frozen by that iteration,
\* and when the loop ends there these are its outputs.
HitOnFirstStep ==
    (InLoop /\ iter = 1) =>
        \A i \in Photons :
            LessOne(rel_d_til_hit[i]) =>
                LET step == Times(Min(d_scat[i], d_abs0[i]), rel_d_til_hit[i])
                IN  /\ r[i] = VecAdd(r0[i], VecScale(step, v0[i]))
                    /\ t[i] = step
                    /\ d_abs[i] = 0
                    /\ v[i] = v0[i]
                    /\ pc = "done" =>
                        /\ final_positions[i] = VecAdd(r0[i], VecScale(step, v0[i]))
                        /\ arrival_times[i] = step

\* the scenario, scaled: scatter distance 4, absorption distance 2, hit
\* fraction 1/2 for every photon; the loop has ended with elapsed time 1
HitOnFirstStepWitness ==
    /\ pc = "done" /\ iter = 1
    /\ \A i \in Photons :
        /\ d_scat[i] = 4 /\ d_abs0[i] = 2 /\ rel_d_til_hit[i] = <<1, 2>>
        /\ arrival_times[i] = 1
        /\ final_positions[i] = VecAdd(r0[i], v0[i])

\* four times the squared distance of pos from the detector's centre, and four
\* times the squared cutoff radius, both times the squared denominator of cut
CentreDistance(pos) ==
    LET c == <<2 * pos[1] - l_x, 2 * pos[2] - l_y, 2 * pos[3] - l_z>>
    IN  Dot(c, c)
CutoffDistance(cut) == cut[1] * cut[1] * (l_x * l_x + l_y * l_y + l_z * l_z)

\* d_abs of photon i as the hit and absorption step of the iteration leaves it
HitStepValue(i) ==
    LET da == IF d_abs[i] > 0 THEN d_abs[i] ELSE 0
        d == Min(d_scat'[i], da)
    IN  IF LessOne(rel_d_til_hit'[i]) THEN 0 ELSE da - d

\* C8.  Under a configured cutoff an iteration freezes a photon by
\* the cutoff exactly when its new position is strictly farther from the
\* detector's centre than the cutoff radius; without one, never.
CutoffStrictlyOutside ==
    [][(pc = "loop" /\ iter' = iter + 1) =>
        \A i \in Photons :
            LET cut == settings.CUTOFF_RADIUS
                outside == /\ r'[i] # NaNVector
                           /\ cut[2] * cut[2] * CentreDistance(r'[i]) > CutoffDistance(cut)
            IN  d_abs'[i] = IF CutoffConfigured(settings) /\ outside
                            THEN 0 ELSE HitStepValue(i)]_vars

\* What line 146 does instead: under a configured cutoff an iteration freezes
\* a photon by the cutoff exactly when its new position is not strictly nearer
\* to the detector's centre than the cutoff radius, the radius itself included.
CutoffNotInside ==
    [][(pc = "loop" /\ iter' = iter + 1) =>
        \A i \in Photons :
            LET cut == settings.CUTOFF_RADIUS
                outside == \/ r'[i] = NaNVector
                           \/ cut[2] * cut[2] * CentreDistance(r'[i]) >= CutoffDistance(cut)
            IN  d_abs'[i] = IF CutoffConfigured(settings) /\ outside
                            THEN 0 ELSE HitStepValue(i)]_vars

\* a photon that the hit and absorption step left active stands exactly on the
\* cutoff radius after its first step and is frozen
CutoffNotInsideWitness ==
    /\ pc = "loop" /\ iter = 1
    /\ CutoffConfigured(settings)
    /\ \E i \in Photons :
        /\ d_abs0[i] = 4 /\ d_scat[i] = 2 /\ rel_d_til_hit[i] = <<1, 1>>
        /\ r[i] # NaNVector
        /\ settings.CUTOFF_RADIUS[2] * settings.CUTOFF_RADIUS[2] * CentreDistance(r[i])
              = CutoffDistance(settings.CUTOFF_RADIUS)
        /\ d_abs[i] = 0

\* a collaborator has returned a value outside its contract
ContractBroken ==
    /\ InLoop
    /\ \E i \in Photons :
        \/ d_abs0[i] <= 0
        \/ iter > 0 /\ d_scat[i] <= 0
        \/ iter > 0 /\ ~InUnit(rel_d_til_hit[i])

\* C9.  When the medium returns a scatter distance or an initial absorption
\* distance that is not positive, or the detector a hit fraction outside
\* [0, 1], the engine is stopped in an error state.
FailFast == ContractBroken => pc = "error"

\* C10. With BATCH_SIZE a multiple of CASCADES_PER_STEP, the initial positions
\* are BATCH_SIZE many, as many as the initial directions, and the photons can
\* be shared out among the cascade origins, BATCH_SIZE/CASCADES_PER_STEP to
\* each, so that every photon starts at its origin.
CascadeReplication ==
    (pc = "propagate" /\ settings.BATCH_SIZE % settings.CASCADES_PER_STEP = 0) =>
        /\ Len(r0) = settings.BATCH_SIZE
        /\ Len(r0) = Len(v0)
        /\ \E owner \in [DOMAIN r0 -> DOMAIN r_cascades] :
            /\ \A i \in DOMAIN r0 : r0[i] = r_cascades[owner[i]]
            /\ \A k \in DOMAIN r_cascades :
                Cardinality({i \in DOMAIN r0 : owner[i] = k})
                    = settings.BATCH_SIZE \div settings.CASCADES_PER_STEP

\* four photons have been placed at two different origins
CascadeReplicationWitness ==
    /\ pc = "propagate"
    /\ settings.BATCH_SIZE = 4 /\ settings.CASCADES_PER_STEP = 2
    /\ r_cascades[1] # r_cascades[2]
    /\ Cardinality({i \in DOMAIN r0 : r0[i] = r_cascades[1]}) = 2
    /\ Cardinality({i \in DOMAIN r0 : r0[i] = r_cascades[2]}) = 2

\* ---- C11 ----
\* tf.norm(w) = 1; the norm of a NaN vector is NaN and equals nothing
IsUnit(w) == w # NaNVector /\ Dot(w, w) = 1

\* the sampled vector of the draws dr is parallel to w (lines 103-104)
ParallelDraw(w, dr) == NormalCross(w, dr[2], dr[3]) = <<0, 0, 0>>

\* C11 as stated: every photon's direction has norm 1 at the start and at the
\* end of every loop iteration.
UnitNormDirections ==
    InLoop => \A i \in Photons : IsUnit(v0[i]) /\ IsUnit(v[i])

\* What tf_scatter does instead: the initial direction has norm 1, and at the
\* start and at the end of every loop iteration a photon's direction has norm 1
\* or is NaN;
\* tf_scatter applied to a direction of norm 1 returns a direction of norm 1
\* unless the vector it samples is parallel to the direction, and NaN then.
UnitNormUnlessParallel ==
    InLoop =>
        \A i \in Photons :
            /\ IsUnit(v0[i])
            /\ v[i] = NaNVector \/ IsUnit(v[i])
            /\ IsUnit(v[i]) =>
                   \A dr \in ScatterDraws :
                       IF ParallelDraw(v[i], dr)
                       THEN tf_scatter(v[i], dr) = NaNVector
                       ELSE IsUnit(tf_scatter(v[i], dr))

\* an active photon whose direction a scattering has reversed, next to one
\* whose direction a parallel draw has made NaN
UnitNormWitness ==
    /\ pc = "loop"
    /\ iter >= 1
    /\ \E i, j \in Photons :
           /\ d_abs[i] > 0
           /\ v[i] = VecScale(-1, v0[i])
           /\ IsUnit(v[i])
           /\ v[j] = NaNVector

\* ---- C12 ----
\* the cutoff step of the iteration leaves d_abs of photon i as the hit and
\* absorption step has set it
CutoffKeeps(i) ==
    ~CutoffConfigured(settings) \/ InsideCutoff(r'[i], settings.CUTOFF_RADIUS)

\* C12. With d = min(d_scat, max(d_abs, 0)), the hit and absorption step of an
\* iteration sets a photon's d_abs to 0 when the hit fraction is < 1 and to
\* d_abs - d when it is 1: a photon with hit fraction 1 and d_scat >= d_abs is
\* frozen in that iteration, one with hit fraction 1 and d_scat < d_abs is left
\* with d_abs - d_scat > 0.  (The value is read after the iteration, where the
\* cutoff step has not replaced it.)
HitAbsorptionUpdate ==
    [][(pc = "loop" /\ iter' = iter + 1) =>
        \A i \in Photons :
            LET da == IF d_abs[i] > 0 THEN d_abs[i] ELSE 0
                ds == d_scat'[i]
                d == Min(ds, da)
                f == rel_d_til_hit'[i]
            IN  /\ LessOne(f) => d_abs'[i] = 0
                /\ (f = <<1, 1>> /\ CutoffKeeps(i)) => d_abs'[i] = da - d
                /\ (f = <<1, 1>> /\ ds >= da) => d_abs'[i] = 0
                /\ (f = <<1, 1>> /\ ds < da /\ CutoffKeeps(i)) =>
                       d_abs'[i] = d_abs[i] - ds /\ d_abs'[i] > 0]_vars

\* after the first iteration: one photon with hit fraction 1 and d_scat 2 below
\* its d_abs 4 is active with d_abs 2, another with hit fraction 1 and d_scat 4
\* above its d_abs 2 is frozen
HitAbsorptionUpdateWitness ==
    /\ pc = "loop" /\ iter = 1
    /\ \E i, j \in Photons :
           /\ rel_d_til_hit[i] = <<1, 1>> /\ d_scat[i] = 2 /\ d_abs0[i] = 4
           /\ d_abs[i] = 2
           /\ rel_d_til_hit[j] = <<1, 1>> /\ d_scat[j] = 4 /\ d_abs0[j] = 2
           /\ d_abs[j] = 0

\* ---- C13 ----
\* C13. At the end of an iteration a photon's direction is replaced by a
\* scattered direction exactly when its d_abs is still > 0 after the hit,
\* absorption and cutoff updates of that iteration; a photon frozen during the
\* iteration has moved along its old direction and keeps it.
ScatterMaskedByPostStep ==
    [][(pc = "loop" /\ iter' = iter + 1) =>
        \A i \in Photons :
            /\ r'[i] = IF r[i] = NaNVector \/ v[i] = NaNVector THEN NaNVector
                       ELSE VecAdd(r[i], VecScale(t'[i] - t[i], v[i]))
            /\ IF d_abs'[i] > 0
               THEN v'[i] \in ScatterOutcomes(v[i])
               ELSE v'[i] = v[i]]_vars

\* after the first iteration: a photon that the hit and absorption step left
\* active (hit fraction 1, d_scat 2 below d_abs 4) and the cutoff then froze
\* has moved by 2 and kept its direction, while another photon is still active
\* and has its direction reversed
ScatterMaskedByPostStepWitness ==
    /\ pc = "loop" /\ iter = 1
    /\ CutoffConfigured(settings)
    /\ \E i, j \in Photons :
           /\ d_abs0[i] = 4 /\ d_scat[i] = 2 /\ rel_d_til_hit[i] = <<1, 1>>
           /\ d_abs[i] = 0 /\ t[i] = 2
           /\ v[i] = v0[i]
           /\ d_abs[j] > 0
           /\ v[j] = VecScale(-1, v0[j])

\* ---- C14 ----
\* C14. In each iteration the whole increment d*hit_fraction of a photon is
\* added to layer0_time when the z-coordinate of its position after the advance
\* is < 50 and to layer1_time when it is >= 50, whatever the z-coordinate
\* before the step was and whether or not the segment crosses z = 50.
LayerByPostStepPosition ==
    [][(pc = "loop" /\ iter' = iter + 1) =>
        \A i \in Photons :
            LET da == IF d_abs[i] > 0 THEN d_abs[i] ELSE 0
                inc == Times(Min(d_scat'[i], da), rel_d_til_hit'[i])
            IN  /\ t'[i] = t[i] + inc
                /\ (r'[i] # NaNVector /\ r'[i][3] < 50) =>
                       /\ t_layer_0'[i] = t_layer_0[i] + inc
                       /\ t_layer_1'[i] = t_layer_1[i]
                /\ (r'[i] # NaNVector /\ r'[i][3] >= 50) =>
                       /\ t_layer_1'[i] = t_layer_1[i] + inc
                       /\ t_layer_0'[i] = t_layer_0[i]]_vars

\* the first step of a photon has gone from z = 48 to z = 52, across z = 50,
\* and all of its length 4 is in layer1_time
LayerByPostStepPositionWitness ==
    /\ pc = "loop" /\ iter = 1
    /\ \E i \in Photons :
           /\ r0[i][3] = 48 /\ r[i] # NaNVector /\ r[i][3] = 52
           /\ t[i] = 4 /\ t_layer_1[i] = 4 /\ t_layer_0[i] = 0

\* ---- C15 ----
\* C15. After every loop iteration every photon's d_abs is >= 0, whatever
\* scatter distance the medium returned and whatever d_abs the photon entered
\* the iteration with; so with positive initial absorption distances every loop
\* state has d_abs >= 0, the loop goes on exactly while some photon has
\* d_abs > 0, and in the final state every d_abs is 0.
AbsorptionNeverNegative ==
    /\ (InLoop /\ iter >= 1) => \A i \in Photons : d_abs[i] >= 0
    /\ (InLoop /\ \A i \in Photons : d_abs0[i] > 0) =>
           /\ \A i \in Photons : d_abs[i] >= 0
           /\ cond(d_abs) <=> \E i \in Photons : d_abs[i] > 0
           /\ pc = "done" => \A i \in Photons : d_abs[i] = 0 /\ results[1][i] = 0

\* the first iteration has run over a photon that entered it with d_abs -2 and
\* was handed the scatter distance 0, and has left it with d_abs 0, because
\* another photon of the batch was active; that one, with d_abs 2, was handed
\* the scatter distance -2 and has d_abs 4
AbsorptionNeverNegativeWitness ==
    /\ pc = "loop" /\ iter = 1
    /\ \E i, j \in Photons :
           /\ d_abs0[i] = -2 /\ d_scat[i] = 0 /\ d_abs[i] = 0
           /\ d_abs0[j] = 2 /\ d_scat[j] = -2 /\ d_abs[j] = 4

\* ---- C16 ----
\* C16. For every photon, when the loop starts and after every iteration,
\* elapsed time + d_abs <= its initial absorption distance; the two are equal
\* when the loop starts, and an iteration keeps them equal for a photon unless
\* the detector returns a hit fraction < 1 for it or the cutoff step freezes
\* it.  Hence no final elapsed time exceeds the initial absorption distance.
PathLengthBudget ==
    /\ [](InLoop =>
            \A i \in Photons :
                /\ t[i] + d_abs[i] <= d_abs0[i]
                /\ iter = 0 => t[i] + d_abs[i] = d_abs0[i]
                /\ pc = "done" => arrival_times[i] <= d_abs0[i])
    /\ [][(pc = "loop" /\ iter' = iter + 1) =>
            \A i \in Photons :
                (/\ t[i] + d_abs[i] = d_abs0[i]
                 /\ ~LessOne(rel_d_til_hit'[i])
                 /\ CutoffKeeps(i))
                    => t'[i] + d_abs'[i] = d_abs0[i]]_vars

\* after two iterations: a photon with no hit and no cutoff has used up its
\* absorption distance 4 in two steps of 2, another one, stopped by a hit, has
\* elapsed time + d_abs below its initial absorption distance
PathLengthBudgetWitness ==
    /\ pc = "loop" /\ iter = 2
    /\ \E i, j \in Photons :
           /\ d_abs0[i] = 4 /\ d_scat[i] = 2 /\ rel_d_til_hit[i] = <<1, 1>>
           /\ t[i] = 4 /\ d_abs[i] = 0
           /\ t[j] > 0
           /\ t[j] + d_abs[j] < d_abs0[j]
====
